---- MODULE Spec2Model ----
(***************************************************************************)
(* Model of video_uploader.py: a folder watcher that offers each new video *)
(* file to the user, uploads it on confirmation and remembers which files  *)
(* it has handled (VideoFileMonitor, YouTubeUploader, VideoMonitorApp).    *)
(*                                                                         *)
(* Strings are sequences of one-character strings, so that the string      *)
(* operations of the code (Path.suffix, str.lower, the f-string that       *)
(* builds the processed-set key) are computed and not assumed.             *)
(* A modification time is a whole number of seconds; sizes are left out    *)
(* (no decision of the code reads them).                                   *)
(***************************************************************************)
EXTENDS Naturals, Sequences, FiniteSets

(***************************************************************************)
(* Bounds of the model.                                                    *)
(***************************************************************************)
\* modification times range over 1..MaxTime (0 stands for "no such entry")
MaxTime == 2
\* number of scan-diff-process cycles a run of the model performs at most
MaxCycles == 2

(***************************************************************************)
(* The entries the watched folder can hold.                                *)
(***************************************************************************)
NameA == <<"a", ".", "m", "p", "4">>
NameB == <<"b", ".", "M", "O", "V">>
NameN == <<"n", ".", "t", "x", "t">>
NameD == <<"d", ".", "m", "k", "v">>

Names == {NameA, NameB, NameN, NameD}

\* the entries that are subdirectories (all others are regular files)
DirNames == {NameD}

(***************************************************************************)
(* String helpers of the Python runtime.                                   *)
(***************************************************************************)
UpperCase == <<"A","B","C","D","E","F","G","H","I","J","K","L","M",
               "N","O","P","Q","R","S","T","U","V","W","X","Y","Z">>
LowerCase == <<"a","b","c","d","e","f","g","h","i","j","k","l","m",
               "n","o","p","q","r","s","t","u","v","w","x","y","z">>

\* the lower-case letter of each upper-case letter
LowerOf ==
    [c \in {UpperCase[i] : i \in 1..Len(UpperCase)} |->
        LowerCase[CHOOSE i \in 1..Len(UpperCase) : UpperCase[i] = c]]

\* str.lower() on one character
LowerChar(c) == IF c \in DOMAIN LowerOf THEN LowerOf[c] ELSE c

\* str.lower()
Lower(s) == [i \in 1..Len(s) |-> LowerChar(s[i])]

\* pathlib's PurePath.suffix: the part of the name from its last dot on,
\* empty when there is no dot, or the last dot is the first or last character
Suffix(name) ==
    LET dots == {i \in 1..Len(name) : name[i] = "."}
    IN  IF dots = {} THEN <<>>
        ELSE LET j == CHOOSE i \in dots : \A k \in dots : k <= i
             IN  IF 1 < j /\ j < Len(name) THEN SubSeq(name, j, Len(name))
                 ELSE <<>>

Digits == <<"0","1","2","3","4","5","6","7","8","9">>

RECURSIVE NatStr(_)
\* decimal digits of a natural number
NatStr(n) ==
    IF n < 10 THEN <<Digits[n + 1]>>
    ELSE NatStr(n \div 10) \o <<Digits[(n % 10) + 1]>>

\* str(float) of a whole number of seconds, as the f-string formats st_mtime
FloatStr(t) == NatStr(t) \o <<".", "0">>

(***************************************************************************)
(* VideoFile                                                               *)
(***************************************************************************)
VideoFile(name, mtime) == [name |-> name, modified_time |-> mtime]

\* VideoFile.__post_init__: self.extension = self.path.suffix.lower()
Extension(vf) == Lower(Suffix(vf.name))

valid_extensions ==
    { <<".", "m", "p", "4">>, <<".", "a", "v", "i">>, <<".", "m", "o", "v">>,
      <<".", "m", "k", "v">>, <<".", "w", "m", "v">>, <<".", "f", "l", "v">>,
      <<".", "w", "e", "b", "m">>, <<".", "m", "4", "v">> }

\* the same test without the lower-casing of the extension
is_valid_video_case_sensitive(vf) == Suffix(vf.name) \in valid_extensions

is_valid_video(vf) == Extension(vf) \in valid_extensions

(***************************************************************************)
(* VideoFileMonitor                                                        *)
(***************************************************************************)
\* the key drops the modification time
FileKey_name_only(vf) == vf.name

\* file_key = f"{video_file.name}_{video_file.modified_time}"
FileKey(vf) == vf.name \o <<"_">> \o FloatStr(vf.modified_time)

is_new_file(proc, vf) == FileKey(vf) \notin proc

\* the set is replaced instead of extended
mark_as_processed_replacing(proc, vf) == {FileKey(vf)}

mark_as_processed(proc, vf) == proc \cup {FileKey(vf)}

\* Path.is_file()
is_file(name) == name \notin DirNames

\* the permutations of a set: the orders in which iterdir() can list it
RECURSIVE Orders(_)
Orders(S) ==
    IF S = {} THEN {<<>>}
    ELSE UNION {{<<x>> \o s : s \in Orders(S \ {x})} : x \in S}

\* a fault of one scan: no exception, or an exception (PermissionError or any
\* other Exception) raised by iterdir() itself (at = 0) or while entry
\* number at is examined (is_file() or stat() raises)
NoFault == [raised |-> FALSE, at |-> 0]
Faults(n) == {NoFault} \cup {[raised |-> TRUE, at |-> i] : i \in 0..n}

RECURSIVE ScanLoop(_, _, _, _, _)
\* the for loop of scan_directory from entry i on; an exception leaves the
\* loop for the except clause, which logs, and video_files is returned
ScanLoop(dir, order, fault, i, acc) ==
    IF i > Len(order) THEN acc
    ELSE IF fault.raised /\ fault.at = i THEN acc
    ELSE LET vf == VideoFile(order[i], dir[order[i]])
         IN  IF is_file(order[i]) /\ is_valid_video(vf)
             THEN ScanLoop(dir, order, fault, i + 1, Append(acc, vf))
             ELSE ScanLoop(dir, order, fault, i + 1, acc)

\* an exception discards what the loop has collected
scan_directory_empty_on_error(dir, order, fault) ==
    IF fault.raised THEN <<>> ELSE ScanLoop(dir, order, fault, 1, <<>>)

scan_directory(dir, order, fault) ==
    IF fault.raised /\ fault.at = 0 THEN <<>>
    ELSE ScanLoop(dir, order, fault, 1, <<>>)

(***************************************************************************)
(* YouTubeUploader                                                         *)
(***************************************************************************)
\* what can go wrong in one upload_video call: nothing; MediaFileUpload(...)
\* raises (the file cannot be opened); videos().insert(...) raises;
\* execute() raises HttpError or another Exception; execute() returns an
\* empty response; the user presses Ctrl+C during the call
UploadFaults ==
    {"none", "media_error", "insert_error", "http_error", "execute_error",
     "empty_response", "KeyboardInterrupt"}

\* the outcome of upload_video: the returned boolean, or the exception
\* that leaves the call
upload_video(service, fault) ==
    IF service = "None" THEN "False"
    ELSE IF fault = "KeyboardInterrupt" THEN "KeyboardInterrupt"
    ELSE IF fault = "media_error" THEN "Exception"
    ELSE IF fault \in {"insert_error", "http_error", "execute_error"} THEN "False"
    ELSE IF fault = "none" THEN "True"
    ELSE "False"

(***************************************************************************)
(* VideoMonitorApp                                                         *)
(***************************************************************************)
\* initialize_uploader returns True although YouTubeUploader() raised
initialize_uploader_true_on_failure(up, auth) ==
    IF up # "None" THEN [uploader |-> up, ret |-> "True", created |-> FALSE]
    ELSE IF auth = "ok"
    THEN [uploader |-> "ready", ret |-> "True", created |-> TRUE]
    ELSE IF auth = "Exception"
    THEN [uploader |-> "None", ret |-> "True", created |-> FALSE]
    ELSE [uploader |-> "None", ret |-> "KeyboardInterrupt", created |-> FALSE]

\* without the test of line 288: YouTubeUploader() is called for every
\* confirmed file
initialize_uploader_every_time(up, auth) ==
    IF auth = "ok"
    THEN [uploader |-> "ready", ret |-> "True", created |-> TRUE]
    ELSE IF auth = "Exception"
    THEN [uploader |-> up, ret |-> "False", created |-> FALSE]
    ELSE [uploader |-> up, ret |-> "KeyboardInterrupt", created |-> FALSE]

\* initialize_uploader: the uploader afterwards and the value returned
\* ("True", "False") or the exception that leaves the call, and whether a
\* YouTubeUploader was created; auth is the outcome of YouTubeUploader() when
\* it is called
initialize_uploader(up, auth) ==
    IF up # "None" THEN [uploader |-> up, ret |-> "True", created |-> FALSE]
    ELSE IF auth = "ok"
    THEN [uploader |-> "ready", ret |-> "True", created |-> TRUE]
    ELSE IF auth = "Exception"
    THEN [uploader |-> "None", ret |-> "False", created |-> FALSE]
    ELSE [uploader |-> "None", ret |-> "KeyboardInterrupt", created |-> FALSE]

\* One iteration of the for loop of process_video_files ends in one of the
\* branches "declined", "upload_true", "upload_false" (all three reach
\* line 336), "continue" (line 314), "break" (line 340), "except" (line 342).

\* mark_as_processed sits inside the branch of a confirmed file
ProcessedAfter_confirmed_only(proc, vf, branch) ==
    IF branch \in {"upload_true", "upload_false"}
    THEN mark_as_processed(proc, vf) ELSE proc

\* mark_as_processed sits inside the branch of a successful upload
ProcessedAfter_unless_failed(proc, vf, branch) ==
    IF branch \in {"declined", "upload_true"}
    THEN mark_as_processed(proc, vf) ELSE proc

\* mark_as_processed sits in a finally clause
ProcessedAfter_finally(proc, vf, branch) == mark_as_processed(proc, vf)

\* the KeyboardInterrupt handler marks the interrupted file before break
ProcessedAfter_marks_interrupted(proc, vf, branch) ==
    IF branch \in {"declined", "upload_true", "upload_false", "break"}
    THEN mark_as_processed(proc, vf) ELSE proc

\* mark_as_processed sits inside the branch of a declined file
ProcessedAfter_declined_only(proc, vf, branch) ==
    IF branch = "declined" THEN mark_as_processed(proc, vf) ELSE proc

\* the processed set after one iteration: line 336 is reached when the
\* user declined or upload_video returned; continue, break and the except
\* clause pass it by
ProcessedAfter(proc, vf, branch) ==
    IF branch \in {"declined", "upload_true", "upload_false"}
    THEN mark_as_processed(proc, vf) ELSE proc

(***************************************************************************)
(* State                                                                   *)
(***************************************************************************)
VARIABLES
    folder,       \* the watched folder: entry name -> modification time, 0 = absent
    processed,    \* VideoFileMonitor.processed_files
    uploader,     \* VideoMonitorApp.uploader: "None", or "ready" (authenticated)
    running,      \* VideoMonitorApp.running
    mode,         \* "none", "single" or "continuous": the choice made in main
    pc,           \* where the run is: "main", "scan", "diff", "confirm", "init",
                  \* "details", "upload", "sleep", "done", "crashed"
    video_files,  \* the list scan_directory returned in this cycle (empty
                  \* between cycles)
    new_files,    \* new_files of process_video_files in this cycle (empty
                  \* between cycles)
    idx,          \* position in new_files of the file being handled, 0 = none
    scanOrder,    \* scanner alone: the order in which iterdir() listed the
                  \* folder in the last pass
    scanFault,    \* scanner alone: the fault of the last pass
    cycle,        \* number of scans started
    outcome,      \* history: for each name, the file of that name handled last
                  \* and how its handling ended
    lastUpload,   \* file, fault and result of the upload_video call that has
                  \* just returned
    prompted,     \* history: the files whose confirmation prompt was answered
    interrupted,  \* history: a KeyboardInterrupt was raised
    changed,      \* history: the folder changed after the run began
    auths,        \* history: number of YouTubeUploader() calls that returned
    uploadCalls   \* history: for each name, whether upload_video was called
                  \* for the file of that name as it is in the folder now:
                  \* "none", "unfinished" (the last call raised) or
                  \* "returned" (the last call returned True or False)

vars ==
    <<folder, processed, uploader, running, mode, pc, video_files, new_files,
      idx, scanOrder, scanFault, cycle, outcome, lastUpload, prompted,
      interrupted, changed, auths, uploadCalls>>

\* the names of video files and the files (name and modification time) a
\* scan can return
VideoNames == {n \in Names : is_file(n) /\ is_valid_video(VideoFile(n, 0))}
Files == {VideoFile(n, t) : n \in VideoNames, t \in 1..MaxTime}

\* the contents the folder can have; the modification time of an entry that
\* is no video file is never read, so it is 1 whenever the entry exists
Contents ==
    {f \in [Names -> 0..MaxTime] : \A n \in Names \ VideoNames : f[n] <= 1}

Present(dir) == {n \in Names : dir[n] # 0}

Range(s) == {s[i] : i \in DOMAIN s}

\* no file of that name has been handled
NotHandled == [modified_time |-> 0, how |-> "none"]

\* no upload_video call has just returned
NoUpload == [file |-> VideoFile(<<>>, 0), fault |-> "none", result |-> "none"]

\* the contents a run starts from: the text file and the subdirectory exist
StartContents == {f \in Contents : \A n \in Names \ VideoNames : f[n] = 1}

\* VideoMonitorApp.__init__ on a folder that exists
Created ==
    /\ processed = {}
    /\ uploader = "None"
    /\ running = FALSE
    /\ mode = "none"
    /\ pc = "main"
    /\ video_files = <<>>
    /\ new_files = <<>>
    /\ idx = 0
    /\ scanOrder = <<>>
    /\ scanFault = NoFault
    /\ cycle = 0
    /\ outcome = [n \in VideoNames |-> NotHandled]
    /\ lastUpload = NoUpload
    /\ prompted = {}
    /\ interrupted = FALSE
    /\ changed = FALSE
    /\ auths = 0
    /\ uploadCalls = [n \in VideoNames |-> "none"]

Init == folder \in StartContents /\ Created

(***************************************************************************)
(* Operations                                                              *)
(***************************************************************************)
\* the file the for loop of process_video_files is handling
Current == new_files[idx]

\* the body of the while loop of run_continuous_monitoring runs once
AfterCycle_once == "done"

\* the mode is ignored and every run goes on to time.sleep
AfterCycle_always_sleep == "sleep"

\* where the run goes when process_video_files returns: run_single_scan
\* returns to main in single-scan mode and to time.sleep in continuous mode
AfterCycle == IF mode = "single" THEN "done" ELSE "sleep"

\* new_files = [vf for vf in video_files if self.file_monitor.is_new_file(vf)]
NewFiles(proc, files) ==
    LET IsNew(vf) == is_new_file(proc, vf) IN SelectSeq(files, IsNew)

\* the KeyboardInterrupt handler of line 338 ends the run instead of the loop
FinishIteration_interrupt_ends_run(branch, how) ==
    /\ processed' = ProcessedAfter(processed, Current, branch)
    /\ outcome' = [outcome EXCEPT ![Current.name] =
                       [modified_time |-> Current.modified_time, how |-> how]]
    /\ interrupted' = (interrupted \/ branch = "break")
    /\ IF branch = "break" \/ idx = Len(new_files)
       THEN pc' = (IF branch = "break" THEN "done" ELSE AfterCycle)
            /\ idx' = 0
            /\ video_files' = <<>> /\ new_files' = <<>>
       ELSE pc' = "confirm" /\ idx' = idx + 1
            /\ UNCHANGED <<video_files, new_files>>

\* the except clause of line 341 ends the for loop as the break does
FinishIteration_error_ends_loop(branch, how) ==
    /\ processed' = ProcessedAfter(processed, Current, branch)
    /\ outcome' = [outcome EXCEPT ![Current.name] =
                       [modified_time |-> Current.modified_time, how |-> how]]
    /\ interrupted' = (interrupted \/ branch = "break")
    /\ IF branch \in {"break", "except"} \/ idx = Len(new_files)
       THEN pc' = AfterCycle /\ idx' = 0
            /\ video_files' = <<>> /\ new_files' = <<>>
       ELSE pc' = "confirm" /\ idx' = idx + 1
            /\ UNCHANGED <<video_files, new_files>>

\* the end of one iteration of the for loop: the processed set is updated,
\* and the loop goes on to the next file, or ends after the last file or on
\* break
FinishIteration(branch, how) ==
    /\ processed' = ProcessedAfter(processed, Current, branch)
    /\ outcome' = [outcome EXCEPT ![Current.name] =
                       [modified_time |-> Current.modified_time, how |-> how]]
    /\ interrupted' = (interrupted \/ branch = "break")
    /\ IF branch = "break" \/ idx = Len(new_files)
       THEN pc' = AfterCycle /\ idx' = 0
            /\ video_files' = <<>> /\ new_files' = <<>>
       ELSE pc' = "confirm" /\ idx' = idx + 1
            /\ UNCHANGED <<video_files, new_files>>

\* the iteration goes on to its next call
ContinueIteration(next) ==
    /\ pc' = next
    /\ UNCHANGED <<processed, outcome, interrupted, idx, video_files,
                   new_files>>

\* the lists one scan of the folder can return: iterdir() lists the entries
\* in any order, and any fault can happen
ScanResults(dir) ==
    {scan_directory(dir, order, fault) :
        order \in Orders(Present(dir)), fault \in Faults(Cardinality(Present(dir)))}

\* main: the mode is chosen; run_continuous_monitoring sets running
ChooseMode ==
    /\ pc = "main"
    /\ \E m \in {"single", "continuous"} :
        /\ mode' = m
        /\ running' = (m = "continuous")
    /\ pc' = "scan"
    /\ UNCHANGED <<folder, processed, uploader, video_files, new_files, idx,
                   scanOrder, scanFault, cycle, outcome, lastUpload, prompted,
                   interrupted, changed,
                   auths, uploadCalls>>

\* run_single_scan: self.file_monitor.scan_directory() returns
ScanDirectory ==
    /\ pc = "scan"
    /\ video_files' \in ScanResults(folder)
    /\ new_files' = <<>>
    /\ idx' = 0
    /\ cycle' = cycle + 1
    /\ pc' = "diff"
    /\ UNCHANGED <<folder, processed, uploader, running, mode, scanOrder,
                   scanFault, outcome, lastUpload, prompted, interrupted,
                   changed,
                   auths, uploadCalls>>

\* Ctrl+C during scan_directory: KeyboardInterrupt is no Exception, so it
\* leaves scan_directory and run_single_scan; run_continuous_monitoring
\* catches it, main does not
ScanInterrupt ==
    /\ pc = "scan"
    /\ cycle' = cycle + 1
    /\ interrupted' = TRUE
    /\ IF mode = "continuous"
       THEN running' = FALSE /\ pc' = "done"
       ELSE running' = running /\ pc' = "crashed"
    /\ UNCHANGED <<folder, processed, uploader, mode, video_files, new_files,
                   idx, scanOrder, scanFault, outcome, lastUpload, prompted,
                   changed,
                   auths, uploadCalls>>

\* process_video_files up to its for loop
StartProcessing ==
    /\ pc = "diff"
    /\ LET new == NewFiles(processed, video_files) IN
        /\ IF new = <<>>
           THEN pc' = AfterCycle /\ idx' = 0
                /\ video_files' = <<>> /\ new_files' = <<>>
           ELSE pc' = "confirm" /\ idx' = 1
                /\ video_files' = video_files /\ new_files' = new
    /\ UNCHANGED <<folder, processed, uploader, running, mode, scanOrder,
                   scanFault, cycle, outcome, lastUpload, prompted,
                   interrupted, changed,
                   auths, uploadCalls>>

\* self.ui.get_user_confirmation(video_file): the user answers, presses
\* Ctrl+C, or input() raises (end of input)
GetUserConfirmation ==
    /\ pc = "confirm"
    /\ \E answer \in {"yes", "no", "KeyboardInterrupt", "Exception"} :
        /\ prompted' = IF answer \in {"yes", "no"}
                       THEN prompted \cup {Current} ELSE prompted
        /\ CASE answer = "yes" -> ContinueIteration("init")
             [] answer = "no" -> FinishIteration("declined", "declined")
             [] answer = "KeyboardInterrupt" ->
                    FinishIteration("break", "interrupted")
             [] OTHER -> FinishIteration("except", "error")
    /\ lastUpload' = NoUpload
    /\ UNCHANGED <<folder, uploader, running, mode, scanOrder, scanFault,
                   cycle, changed,
                   auths, uploadCalls>>

\* self.initialize_uploader()
InitializeUploader ==
    /\ pc = "init"
    /\ \E auth \in {"ok", "Exception", "KeyboardInterrupt"} :
        LET r == initialize_uploader(uploader, auth) IN
        /\ uploader' = r.uploader
        /\ auths' = IF r.created THEN auths + 1 ELSE auths
        /\ CASE r.ret = "True" -> ContinueIteration("details")
             [] r.ret = "False" -> FinishIteration("continue", "init_failed")
             [] OTHER -> FinishIteration("break", "interrupted")
    /\ UNCHANGED <<folder, running, mode, scanOrder, scanFault, cycle,
                   lastUpload, prompted, changed, uploadCalls>>

\* self.ui.get_video_details(video_file)
GetVideoDetails ==
    /\ pc = "details"
    /\ \E r \in {"ok", "KeyboardInterrupt", "Exception"} :
        CASE r = "ok" -> ContinueIteration("upload")
          [] r = "KeyboardInterrupt" -> FinishIteration("break", "interrupted")
          [] OTHER -> FinishIteration("except", "error")
    /\ UNCHANGED <<folder, uploader, running, mode, scanOrder, scanFault,
                   cycle, lastUpload, prompted, changed,
                   auths, uploadCalls>>

\* self.uploader.upload_video(...), the report of its result and the rest
\* of the iteration
UploadVideo ==
    /\ pc = "upload"
    /\ \E fault \in UploadFaults :
        LET res == upload_video(uploader, fault) IN
        /\ lastUpload' = [file |-> Current, fault |-> fault, result |-> res]
        /\ uploadCalls' = [uploadCalls EXCEPT ![Current.name] =
                IF res \in {"True", "False"} THEN "returned" ELSE "unfinished"]
        /\ CASE res = "True" -> FinishIteration("upload_true", "uploaded")
             [] res = "False" -> FinishIteration("upload_false", "upload_failed")
             [] res = "Exception" -> FinishIteration("except", "error")
             [] OTHER -> FinishIteration("break", "interrupted")
    /\ UNCHANGED <<folder, uploader, running, mode, scanOrder, scanFault,
                   cycle, prompted, changed, auths>>

\* time.sleep(self.check_interval) returns and the while loop goes round
Wake ==
    /\ pc = "sleep"
    /\ running
    /\ cycle < MaxCycles
    /\ pc' = "scan"
    /\ lastUpload' = NoUpload
    /\ UNCHANGED <<folder, processed, uploader, running, mode, video_files,
                   new_files, idx, scanOrder, scanFault, cycle, outcome,
                   prompted, interrupted, changed,
                   auths, uploadCalls>>

\* the KeyboardInterrupt of time.sleep is caught inside the while loop,
\* which goes round
SleepInterrupt_loop_goes_on ==
    /\ pc = "sleep"
    /\ cycle < MaxCycles
    /\ interrupted' = TRUE
    /\ pc' = "scan"
    /\ lastUpload' = NoUpload
    /\ UNCHANGED <<folder, processed, uploader, running, mode, video_files,
                   new_files, idx, scanOrder, scanFault, cycle, outcome,
                   prompted, changed,
                   auths, uploadCalls>>

\* Ctrl+C during time.sleep: the except clause of run_continuous_monitoring
SleepInterrupt ==
    /\ pc = "sleep"
    /\ running' = FALSE
    /\ interrupted' = TRUE
    /\ pc' = "done"
    /\ lastUpload' = NoUpload
    /\ UNCHANGED <<folder, processed, uploader, mode, video_files, new_files,
                   idx, scanOrder, scanFault, cycle, outcome, prompted,
                   changed,
                   auths, uploadCalls>>

\* the environment: between two scans a video file of the folder is
\* modified, which gives it a later modification time (creations and
\* deletions are covered by the contents a run starts from and by the faults
\* that cut a scan short)
FolderChange ==
    /\ pc = "sleep"
    /\ \E n \in VideoNames : \E t \in 1..MaxTime :
        /\ folder[n] # 0
        /\ t > folder[n]
        /\ folder' = [folder EXCEPT ![n] = t]
        /\ uploadCalls' = [uploadCalls EXCEPT ![n] = "none"]
    /\ changed' = TRUE
    /\ UNCHANGED <<processed, uploader, running, mode, pc, video_files,
                   new_files, idx, scanOrder, scanFault, cycle, outcome,
                   lastUpload, prompted, interrupted, auths>>

Next ==
    \/ ChooseMode
    \/ ScanDirectory
    \/ ScanInterrupt
    \/ StartProcessing
    \/ GetUserConfirmation
    \/ InitializeUploader
    \/ GetVideoDetails
    \/ UploadVideo
    \/ Wake
    \/ SleepInterrupt
    \/ FolderChange

Spec == Init /\ [][Next]_vars

(***************************************************************************)
(* The scanner alone: one pass of scan_directory over any folder content,  *)
(* in any listing order, with any fault.                                   *)
(***************************************************************************)
InitScan == folder \in Contents /\ Created

ScanPass ==
    /\ pc = "main"
    /\ \E order \in Orders(Present(folder)) : \E fault \in Faults(Len(order)) :
        /\ video_files' = scan_directory(folder, order, fault)
        /\ scanOrder' = order
        /\ scanFault' = fault
    /\ cycle' = 1
    /\ UNCHANGED <<folder, processed, uploader, running, mode, pc, new_files,
                   idx, outcome, lastUpload, prompted, interrupted, changed,
                   auths, uploadCalls>>

NextScan == ScanPass

SpecScan == InitScan /\ [][NextScan]_vars

(***************************************************************************)
(* Definitions shared by the properties                                    *)
(***************************************************************************)
\* the positions of the run inside the for loop of process_video_files
Handling == {"confirm", "init", "details", "upload"}

\* the new files of this cycle whose handling has not ended yet
Remaining ==
    IF pc \in Handling THEN {new_files[i] : i \in idx..Len(new_files)} ELSE {}

\* the file of name n that was handled last
LastHandled(n) == VideoFile(n, outcome[n].modified_time)

\* file vf was handled in an earlier iteration
Handled(vf) ==
    /\ outcome[vf.name].how # "none"
    /\ outcome[vf.name].modified_time = vf.modified_time

(***************************************************************************)
(* C1: when the user confirms a file and initialize_uploader fails, the    *)
(* file is still marked processed and is not in the new set of a later     *)
(* cycle.                                                                  *)
(***************************************************************************)
C1_InitFailureStillMarks ==
    \A n \in VideoNames :
        outcome[n].how = "init_failed" =>
            /\ FileKey(LastHandled(n)) \in processed
            /\ LastHandled(n) \notin Remaining

(***************************************************************************)
(* C2: in a run without interrupt and without change of the folder, a file *)
(* is new in one cycle only: no file that was handled in an earlier cycle, *)
(* however that ended, is among the new files of a later cycle.            *)
(***************************************************************************)
C2_NewInOneCycleOnly ==
    (~interrupted /\ ~changed) => \A vf \in Remaining : ~Handled(vf)

(***************************************************************************)
(* C3: a file the user declined is marked processed when its iteration     *)
(* ends, before the next file is prompted, and is never among the new      *)
(* files of a later cycle.                                                 *)
(***************************************************************************)
C3_DeclinedIsProcessed ==
    \A n \in VideoNames :
        outcome[n].how = "declined" =>
            /\ FileKey(LastHandled(n)) \in processed
            /\ LastHandled(n) \notin Remaining

\* a later cycle scans a declined file again and does not offer it, while
\* it prompts for another file
C3_Witness ==
    /\ pc = "confirm"
    /\ cycle >= 2
    /\ \E n \in VideoNames :
        /\ outcome[n].how = "declined"
        /\ LastHandled(n) \in Range(video_files)
        /\ LastHandled(n) \notin Range(new_files)

(***************************************************************************)
(* C4: when execute() raises a service error (HttpError), upload_video     *)
(* returns False, the failure is the outcome of the file, the file is      *)
(* marked processed, and no later cycle has it among its new files.        *)
(***************************************************************************)
C4_FailedUploadIsProcessed ==
    /\ lastUpload.fault = "http_error" =>
        /\ lastUpload.result = "False"
        /\ outcome[lastUpload.file.name].how = "upload_failed"
        /\ LastHandled(lastUpload.file.name) = lastUpload.file
    /\ \A n \in VideoNames :
        outcome[n].how = "upload_failed" =>
            /\ FileKey(LastHandled(n)) \in processed
            /\ LastHandled(n) \notin Remaining

\* a later cycle scans a file whose upload failed and does not offer it
C4_Witness ==
    /\ pc = "confirm"
    /\ cycle >= 2
    /\ \E n \in VideoNames :
        /\ outcome[n].how = "upload_failed"
        /\ LastHandled(n) \in Range(video_files)
        /\ LastHandled(n) \notin Range(new_files)

(***************************************************************************)
(* C5: an error raised at any step of upload_video (the media body, the    *)
(* insert request, its execution) becomes the result False and is never    *)
(* propagated to process_video_files.                                      *)
(***************************************************************************)
C5_UploadErrorsBecomeFalse ==
    lastUpload.fault \in {"media_error", "insert_error", "http_error",
                          "execute_error"}
        => lastUpload.result = "False"

(***************************************************************************)
(* C6: the processed set is empty when the run starts, and no step removes *)
(* a key: a file that is not new stays not new in every later state.       *)
(***************************************************************************)
C6_ProcessedOnlyGrows ==
    /\ processed = {}
    /\ [][/\ processed \subseteq processed'
          /\ \A vf \in Files :
                ~is_new_file(processed, vf) => ~is_new_file(processed', vf)]_vars

\* two keys are in the set and a second cycle is running
C6_Witness ==
    /\ Cardinality(processed) >= 2
    /\ cycle >= 2
    /\ pc \in Handling

(***************************************************************************)
(* C7: every key of the processed set is the key of a file whose           *)
(* confirmation prompt the user answered earlier in the run.               *)
(***************************************************************************)
C7_ProcessedWasPrompted ==
    processed \subseteq {FileKey(vf) : vf \in prompted}

\* one answered file is processed and another answered file is not
C7_Witness ==
    /\ \E vf \in prompted : FileKey(vf) \in processed
    /\ \E vf \in prompted : FileKey(vf) \notin processed

(***************************************************************************)
(* C8: without a fault, scan_directory returns exactly the entries that    *)
(* are regular files and whose name ends, case-insensitively, in a dot and *)
(* one of mp4, avi, mov, mkv, wmv, flv, webm, m4v: each of them once, with *)
(* its modification time, and nothing else.                                *)
(***************************************************************************)
AllowList ==
    { <<"m", "p", "4">>, <<"a", "v", "i">>, <<"m", "o", "v">>,
      <<"m", "k", "v">>, <<"w", "m", "v">>, <<"f", "l", "v">>,
      <<"w", "e", "b", "m">>, <<"m", "4", "v">> }

\* the name is a non-empty stem, a dot and an extension of the allow-list
\* in any mix of cases
HasAllowedExtension(name) ==
    \E e \in AllowList :
        /\ Len(name) > Len(e) + 1
        /\ Lower(SubSeq(name, Len(name) - Len(e), Len(name))) = <<".">> \o e

\* the entry is a regular file of the folder and not a subdirectory
RegularFile(dir, name) == dir[name] # 0 /\ name \notin DirNames

Candidates(dir) ==
    {VideoFile(n, dir[n]) :
        n \in {m \in Names : RegularFile(dir, m) /\ HasAllowedExtension(m)}}

C8_ScanReturnsExactlyTheVideos ==
    (cycle = 1 /\ ~scanFault.raised) =>
        /\ Range(video_files) = Candidates(folder)
        /\ Len(video_files) = Cardinality(Candidates(folder))

\* a pass without fault over a folder that holds a video file, a video file
\* with an upper-case extension, a text file and a subdirectory
C8_Witness ==
    /\ cycle = 1
    /\ ~scanFault.raised
    /\ Present(folder) = Names
    /\ Len(video_files) = 2

ExaminedBefore(order, fault) ==
    IF fault.at = 0 THEN <<>> ELSE SubSeq(order, 1, fault.at - 1)

\* the video files among a sequence of entries, in order
VideosAmong(dir, entries) ==
    LET Wanted(n) == RegularFile(dir, n) /\ HasAllowedExtension(n)
        kept == SelectSeq(entries, Wanted)
    IN  [i \in 1..Len(kept) |-> VideoFile(kept[i], dir[kept[i]])]

EarlierVersionProcessed(vf) ==
    /\ outcome[vf.name].how # "none"
    /\ outcome[vf.name].modified_time # vf.modified_time
    /\ FileKey(LastHandled(vf.name)) \in processed

C10_ModifiedFileIsNew ==
    pc \in Handling =>
        \A vf \in Range(video_files) :
            EarlierVersionProcessed(vf) => vf \in Range(new_files)

\* the user is prompted for the modified file
C10_Witness ==
    /\ pc = "confirm"
    /\ EarlierVersionProcessed(Current)
    /\ Current \in Range(video_files)

(***************************************************************************)
(* Single-scan mode alone: main calls run_single_scan once.  Every prompt  *)
(* is eventually answered and every call eventually returns or raises,     *)
(* which is weak fairness of the steps of the run.                         *)
(***************************************************************************)
SingleStep ==
    \/ ChooseMode
    \/ ScanDirectory
    \/ ScanInterrupt
    \/ StartProcessing
    \/ GetUserConfirmation
    \/ InitializeUploader
    \/ GetVideoDetails
    \/ UploadVideo

NextSingle == SingleStep /\ mode' = "single"

SpecSingle == Init /\ [][NextSingle]_vars /\ WF_vars(NextSingle)

(***************************************************************************)
(* C11: in single-scan mode the run stops (run_single_scan returns, or an  *)
(* interrupt of the scan ends it), it never starts a second scan, and when *)
(* run_single_scan has returned exactly one scan was performed.            *)
(***************************************************************************)
C11_SingleScanStops ==
    /\ <>(pc \in {"done", "crashed"})
    /\ [](cycle <= 1)
    /\ [](pc = "done" => cycle = 1)

\* run_single_scan has returned after one cycle that handled a file
C11_Witness ==
    /\ mode = "single"
    /\ pc = "done"
    /\ cycle = 1
    /\ processed # {}

(***************************************************************************)
(* C12: continuous mode goes from each cycle to the sleep and on to the    *)
(* next scan; run_continuous_monitoring never ends with an error, and the  *)
(* step that ends it is an interrupt of the scan or of the sleep, which    *)
(* clears running.  No step of the handling of a file ends it.             *)
(***************************************************************************)
C12_OnlyInterruptEndsLoop ==
    /\ [](mode = "continuous" =>
            /\ pc # "crashed"
            /\ (pc = "done" => interrupted /\ ~running)
            /\ (pc # "done" => running))
    /\ [][(mode = "continuous" /\ pc # "done" /\ pc' = "done") =>
            /\ pc \in {"scan", "sleep"}
            /\ interrupted'
            /\ ~running']_vars
    /\ [][(mode = "continuous" /\ pc \in Handling \cup {"diff"}) =>
            pc' \in Handling \cup {"sleep"}]_vars
    /\ [][(mode = "continuous" /\ pc = "sleep" /\ pc' # "sleep") =>
            pc' \in {"scan", "done"}]_vars

\* the loop is in its second sleep although the handling of a file failed
C12_Witness ==
    /\ mode = "continuous"
    /\ pc = "sleep"
    /\ running
    /\ cycle = 2
    /\ ~interrupted
    /\ \E n \in VideoNames :
          outcome[n].how \in {"error", "init_failed", "upload_failed"}

\* this step ends the iteration of the current file with the given outcome
FinishStep(how) ==
    /\ pc \in Handling
    /\ idx' # idx
    /\ outcome'[Current.name].how = how
    /\ outcome'[Current.name].modified_time = Current.modified_time

(***************************************************************************)
(* C13: a KeyboardInterrupt raised while a file is handled (at the prompt, *)
(* at the client initialisation, at the metadata entry or in upload_video) *)
(* ends the for loop: no remaining file is handled in that cycle, and the  *)
(* processed set is unchanged, so that neither the interrupted file nor a  *)
(* remaining one is marked.                                                *)
(***************************************************************************)
C13_InterruptLeavesProcessed ==
    [][FinishStep("interrupted") =>
          /\ processed' = processed
          /\ \A i \in idx..Len(new_files) : FileKey(new_files[i]) \notin processed'
          /\ prompted' = prompted
          /\ pc' = AfterCycle
          /\ new_files' = <<>>]_vars

\* the cycle ended on an interrupt before it got to a second new file
C13_Witness ==
    /\ pc \in {"sleep", "done"}
    /\ cycle = 1
    /\ \E n, m \in VideoNames :
          /\ outcome[n].how = "interrupted"
          /\ FileKey(LastHandled(n)) \notin processed
          /\ folder[m] # 0
          /\ outcome[m].how = "none"
          /\ processed = {}

(***************************************************************************)
(* C14: in continuous mode a KeyboardInterrupt during the sleep between    *)
(* two cycles clears running and ends run_continuous_monitoring; the       *)
(* processed set is left as it is and no step (scan, prompt, upload)       *)
(* follows the end of the run.                                             *)
(***************************************************************************)
C14_SleepInterruptStops ==
    /\ [][(pc = "sleep" /\ (pc' = "done" \/ (~interrupted /\ interrupted'))) =>
            /\ pc' = "done"
            /\ ~running'
            /\ interrupted'
            /\ processed' = processed
            /\ prompted' = prompted
            /\ cycle' = cycle]_vars
    /\ [][pc # "done"]_vars
    /\ [](pc = "done" /\ mode = "continuous" => ~running)

\* the run ended during the sleep that followed the first cycle
C14_Witness ==
    /\ mode = "continuous"
    /\ pc = "done"
    /\ ~running
    /\ interrupted
    /\ cycle = 1
    /\ processed # {}

(***************************************************************************)
(* C15: no interrupt and no other error leaves run_single_scan or          *)
(* run_continuous_monitoring: in both modes the run never ends with an     *)
(* exception that reaches the caller.                                      *)
(***************************************************************************)
C15_NothingLeavesTheLoop == pc # "crashed"

(***************************************************************************)
(* C16: the authenticated client is created lazily and at most once in a   *)
(* run.  The uploader is None at startup and as long as no prompt has been *)
(* answered; it is only ever set by the initialize_uploader call made for  *)
(* a confirmed file; YouTubeUploader() returns at most once in a run; and  *)
(* once the uploader exists, initialize_uploader for a later confirmed     *)
(* file calls nothing that could authenticate, fail or be interrupted: it  *)
(* keeps the uploader and the handling goes on to the metadata entry.      *)
(***************************************************************************)
C16_UploaderCreatedOnce ==
    /\ [](auths <= 1)
    /\ [](uploader = "None" <=> auths = 0)
    /\ [](prompted = {} => uploader = "None")
    /\ [](pc = "init" => Current \in prompted)
    /\ [][(uploader' # uploader \/ auths' # auths) =>
            /\ pc = "init"
            /\ uploader = "None"
            /\ uploader' = "ready"
            /\ auths' = 1]_vars
    /\ [][(pc = "init" /\ uploader # "None") =>
            /\ pc' = "details"
            /\ idx' = idx]_vars

\* a later confirmed file has passed initialize_uploader with the uploader
\* an earlier file's upload had used
C16_Witness ==
    /\ pc = "details"
    /\ uploader = "ready"
    /\ auths = 1
    /\ \E n \in VideoNames :
          /\ n # Current.name
          /\ outcome[n].how \in {"uploaded", "upload_failed"}

C18_ErrorGoesOnToNextFile ==
    [][FinishStep("error") =>
          /\ running' = running
          /\ IF idx < Len(new_files)
             THEN /\ pc' = "confirm"
                  /\ idx' = idx + 1
                  /\ new_files' = new_files
             ELSE pc' = AfterCycle]_vars

\* the file after one whose handling raised is being prompted for
C18_Witness ==
    /\ pc = "confirm"
    /\ idx >= 2
    /\ Handled(new_files[idx - 1])
    /\ outcome[new_files[idx - 1].name].how = "error"

(***************************************************************************)
(* C19: in continuous mode a KeyboardInterrupt raised while a file is      *)
(* handled does not end the run: process_video_files returns, the loop     *)
(* goes on to the sleep with running still set, and a later cycle that     *)
(* scans the interrupted file, or a file the interrupt kept from being     *)
(* handled, has it among its new files again.                              *)
(***************************************************************************)
C19_InterruptedFilesComeBack ==
    /\ [][(mode = "continuous" /\ FinishStep("interrupted")) =>
            /\ pc' = "sleep"
            /\ running'
            /\ cycle' = cycle]_vars
    /\ [](pc \in Handling =>
            \A vf \in Range(video_files) :
                (\/ outcome[vf.name].how = "none"
                 \/ (Handled(vf) /\ outcome[vf.name].how = "interrupted"))
                    => vf \in Range(new_files))

\* the second cycle prompts for the file whose handling was interrupted in
\* the first, and has the file the interrupt skipped among its new files
C19_Witness ==
    /\ mode = "continuous"
    /\ cycle >= 2
    /\ pc = "confirm"
    /\ Handled(Current)
    /\ outcome[Current.name].how = "interrupted"
    /\ \E i \in DOMAIN new_files : outcome[new_files[i].name].how = "none"

(***************************************************************************)
(* C20: upload_video is only called with an authenticated client: when the *)
(* handling of a file has got to the metadata entry or to the upload call, *)
(* the uploader is not None, it was created by the one YouTubeUploader()   *)
(* call that returned, and so the call never takes the branch of a missing *)
(* service.                                                                *)
(***************************************************************************)
C20_UploadHasClient ==
    /\ pc \in {"details", "upload"} => (uploader = "ready" /\ auths = 1)
    /\ lastUpload # NoUpload => (uploader = "ready" /\ auths = 1)
    /\ pc = "upload" =>
          \A fault \in UploadFaults :
              upload_video(uploader, fault) = upload_video("ready", fault)

\* an upload_video call made with the client has just returned
C20_Witness ==
    /\ lastUpload.result \in {"True", "False"}
    /\ uploader = "ready"
    /\ auths = 1

====
